---- MODULE Spec2Model ----
(***************************************************************************)
(* Model of the V'Lille API server (apps/api/src/index.ts): the module-    *)
(* level snapshot cache (cache, cacheDate), the async function             *)
(* fetchStations and the GET /stations handler.  Node runs one segment of  *)
(* code at a time; an async function gives up control at each await, so    *)
(* every action below is the code between two awaits of one request.       *)
(*                                                                         *)
(* Optional JavaScript values (undefined, null, a missing JSON field) are  *)
(* sets of at most one element: None is "absent", Some(x) is "x".          *)
(***************************************************************************)
EXTENDS Integers, Sequences, FiniteSets, TLC

None == {}
Some(x) == {x}
TheVal(o) == CHOOSE x \in o : TRUE
\* JavaScript's  o ?? d
Coalesce(o, d) == IF o = None THEN d ELSE TheVal(o)

(***************************************************************************)
(* Bounds of the model.                                                    *)
(***************************************************************************)
\* concurrent requests the server holds (request slots are reused)
NReq == 2
\* clock advances explored
MaxTicks == 2
\* longest information feed and status feed drawn for the join
MaxInfoLen == 2
MaxStatusLen == 2

Reqs == 1..NReq

(***************************************************************************)
(* Program constants.                                                      *)
(***************************************************************************)
CACHE_MS == 60000
\* Date.now() when the process starts: any value >= CACHE_MS behaves like the
\* real clock, for which Date.now() - 0 < CACHE_MS is false.
StartMs == 2 * CACHE_MS
\* the clock advances in half-TTL steps, so a snapshot is seen at ages 0, TTL/2, TTL
TickMs == CACHE_MS \div 2

(***************************************************************************)
(* Upstream payloads.                                                      *)
(***************************************************************************)
InfoRec(id, name, lat, lon, address) ==
    [station_id |-> id, name |-> name, lat |-> lat, lon |-> lon, address |-> address]
StatusRec(id, bikes, docks) ==
    [station_id |-> id, num_bikes_available |-> bikes, num_docks_available |-> docks]

\* station_information records the upstream may send
InfoRecs ==
    { InfoRec("A", "Gare", 5063, 307, Some("Place des Buisses")),
      InfoRec("A", "Flandres", 5064, 308, None),
      InfoRec("B", "Mairie", 5062, 306, None),
      InfoRec("B", "Opera", 5061, 305, Some("Place du Theatre")) }
\* station_status records the upstream may send (a record may lack its bike count)
StatusRecs ==
    { StatusRec("A", Some(5), 10),
      StatusRec("A", Some(0), 3),
      StatusRec("B", Some(0), 3),
      StatusRec("B", Some(2), 10),
      StatusRec("B", None, 7) }

SeqsUpTo(S, n) == UNION { [1..k -> S] : k \in 0..n }

\* the feeds of the join's own specification
InfoFeeds == SeqsUpTo(InfoRecs, MaxInfoLen)
StatusFeeds == SeqsUpTo(StatusRecs, MaxStatusLen)

\* A parsed data-feed body: Some(stations) when body.data.stations is there,
\* None when the body has no such list.
InfoBodies ==
    { Some(<<InfoRec("A", "Gare", 5063, 307, None)>>), None }
StatusBodies ==
    { Some(<<StatusRec("A", Some(5), 10), StatusRec("B", Some(0), 3)>>),
      Some(<<StatusRec("A", Some(0), 3), StatusRec("B", Some(2), 10)>>),
      None }

\* an entry of the feed list; url is None when the entry has no url field
\* the HTTP responses a fetch may resolve with: r.ok and the parsed body of r
HttpResponses(Bodies) == { [ok |-> o, body |-> b] : o \in BOOLEAN, b \in Bodies }

Feed(name, url) == [name |-> name, url |-> url]
\* A parsed discovery document: Some(feeds) when root.data.en.feeds is there.
RootBodies ==
    { Some(<<Feed("system_information", Some("U0")), Feed("station_information", Some("U1")),
             Feed("station_status", Some("U2"))>>),
      Some(<<Feed("station_status", Some("U2"))>>),
      Some(<<Feed("station_information", Some("U1"))>>),
      Some(<<Feed("station_information", None), Feed("station_status", Some("U2"))>>),
      None }

\* values of ?min= the requests carry
MinValues == {0, 1}

\* req.query.min as the URL carries it: None when the parameter is absent, else
\* its text, one character per element
RawMins ==
    { None, Some(<< >>), Some(<<"0">>), Some(<<"1">>), Some(<<"3">>),
      Some(<<"1", "0">>), Some(<<"-", "1">>), Some(<<"-", "5">>), Some(<<"x">>) }

(***************************************************************************)
(* State.                                                                  *)
(***************************************************************************)
VARIABLES
    cache,      \* let cache: None is null, Some(list) a merged station list
    cacheDate,  \* let cacheDate
    now,        \* Date.now()
    pc,         \* per request: where its handler stands
    root,       \* per request: const feeds of the parsed discovery document
    infoP,      \* per request: the information promise, None while pending
    statusP,    \* per request: the status promise, None while pending
    ret,        \* per request: const stations, what fetchStations returned
    resp,       \* per request: the response sent
    calls,      \* per request: upstream fetches its call has issued, kept until the
                \* request is answered with a list or its exchange is closed
    sameInstant,\* per request: its refresh is under way and began at the current value of the clock
    lastPairAt, \* when the latest pair of data-feed fetches was issued (0: never)
    jPc, jInfo, jStatus, jOut, \* the join applied to drawn feeds
    qRaw, qOut, \* a query on the joined list: req.query.min and the list answered
    aborted,    \* the requests whose client has gone away before the answer
    pairAt,     \* per request: when the feed fetches it awaits were issued (0: none)
    cachePairAt,\* when the feed fetches behind the cached list were issued (0: none)
    pgMin,      \* the page: const [min, setMin]
    pgStations, \* the page: const [stations, setStations], as the min it was asked for
    pgLoad,     \* the page: the request of the load effect, None when settled or aborted
    pgTimers    \* the page: the mins of the interval effect's requests in flight

mainVars == <<cache, cacheDate, now, pc, root, infoP, statusP, ret, resp,
              calls, sameInstant, lastPairAt>>
joinVars == <<jPc, jInfo, jStatus, jOut, qRaw, qOut>>
histVars == <<aborted, pairAt, cachePairAt>>
pageVars == <<pgMin, pgStations, pgLoad, pgTimers>>
\* what the server's own steps leave alone
otherVars == <<joinVars, histVars, pageVars>>
vars == <<cache, cacheDate, now, pc, root, infoP, statusP, ret, resp,
          calls, sameInstant, lastPairAt, jPc, jInfo, jStatus, jOut, qRaw, qOut,
          aborted, pairAt, cachePairAt, pgMin, pgStations, pgLoad, pgTimers>>

NoCalls == [disc |-> 0, info |-> 0, status |-> 0]
\* a response: its status, the list sent, and the ?min= its request carried
NoResp == [status |-> 0, body |-> << >>, min |-> 0]
\* line 75
Error500 == [status |-> 500, body |-> << >>, min |-> 0]
\* line 72
Ok200(list, m) == [status |-> 200, body |-> list, min |-> m]

\* the positions of a call that is refreshing
RefreshPcs == {"fetchRoot", "parseRoot", "awaitAll"}

(***************************************************************************)
(* Pure functions of the code.                                             *)
(***************************************************************************)
\* variant: a snapshot aged exactly CACHE_MS still counts as fresh
IsFresh_Inclusive(t, cd, c) == (t - cd <= CACHE_MS) /\ (c # None)

\* line 29: Date.now() - cacheDate < CACHE_MS && cache  (an array is truthy, null is not)
IsFresh(t, cd, c) == (t - cd < CACHE_MS) /\ (c # None)

\* lines 37-38: feeds.find((f) => f.name === name): the first match, or undefined
FindFeed(feeds, name) ==
    LET hits == { k \in 1..Len(feeds) : feeds[k].name = name }
    IN  IF hits = {} THEN None
        ELSE Some(feeds[CHOOSE k \in hits : \A j \in hits : k <= j])

\* variant: a key already in the map keeps its first value
MapSet_KeepFirst(m, k, v) == [x \in (DOMAIN m) \cup {k} |-> IF x \in DOMAIN m THEN m[x] ELSE v]

\* Map.set
MapSet(m, k, v) == [x \in (DOMAIN m) \cup {k} |-> IF x = k THEN v ELSE m[x]]
\* Map.get: undefined for a key that was never set
MapGet(m, k) == IF k \in DOMAIN m THEN Some(m[k]) ELSE None

\* new Map(entries): the entries are set in order
RECURSIVE NewMap(_, _)
NewMap(entries, m) ==
    IF entries = << >> THEN m
    ELSE NewMap(Tail(entries), MapSet(m, Head(entries)[1], Head(entries)[2]))

\* lines 45-47
InfoById(info) ==
    NewMap([k \in 1..Len(info) |-> <<info[k].station_id, info[k]>>], << >>)

\* variant: a station without information gets placeholder values
MergeOne_Placeholders(byId, s) ==
    LET i == MapGet(byId, s.station_id)
    IN  [id      |-> s.station_id,
         name    |-> IF i = None THEN Some("") ELSE Some(TheVal(i).name),
         lat     |-> IF i = None THEN Some(0) ELSE Some(TheVal(i).lat),
         lon     |-> IF i = None THEN Some(0) ELSE Some(TheVal(i).lon),
         bikes   |-> s.num_bikes_available,
         docks   |-> s.num_docks_available,
         address |-> IF i = None THEN Some("") ELSE TheVal(i).address]

\* lines 49-60, one status record
MergeOne(byId, s) ==
    LET i == MapGet(byId, s.station_id)
    IN  [id      |-> s.station_id,
         name    |-> IF i = None THEN None ELSE Some(TheVal(i).name),
         lat     |-> IF i = None THEN None ELSE Some(TheVal(i).lat),
         lon     |-> IF i = None THEN None ELSE Some(TheVal(i).lon),
         bikes   |-> s.num_bikes_available,
         docks   |-> s.num_docks_available,
         address |-> IF i = None THEN None ELSE TheVal(i).address]

\* variant: an inner join, which keeps only the status records that have information
Merge_InnerJoin(info, status) ==
    LET byId == InfoById(info)
        Known(s) == s.station_id \in DOMAIN byId
        kept == SelectSeq(status, Known)
    IN  [k \in 1..Len(kept) |-> MergeOne(byId, kept[k])]

\* lines 45-60: status.data.stations.map(...)
Merge(info, status) ==
    LET byId == InfoById(info)
    IN  [k \in 1..Len(status) |-> MergeOne(byId, status[k])]

\* variant: a station must have more bikes than min
Filter_Strict(stations, m) ==
    LET Keep(s) == Coalesce(s.bikes, 0) > m
    IN  SelectSeq(stations, Keep)

\* variant: the stations kept are answered last first
Filter_Reversed(stations, m) ==
    LET Keep(s) == Coalesce(s.bikes, 0) >= m
        kept == SelectSeq(stations, Keep)
    IN  [k \in 1..Len(kept) |-> kept[Len(kept) + 1 - k]]

\* line 71: stations.filter((s) => (s.bikes ?? 0) >= min)
Filter(stations, m) ==
    LET Keep(s) == Coalesce(s.bikes, 0) >= m
    IN  SelectSeq(stations, Keep)

DecDigits == <<"0", "1", "2", "3", "4", "5", "6", "7", "8", "9">>
IsDigit(c) == \E k \in 1..10 : DecDigits[k] = c
DigitVal(c) == (CHOOSE k \in 1..10 : DecDigits[k] = c) - 1

RECURSIVE DecVal(_, _)
DecVal(str, acc) ==
    IF str = << >> THEN acc ELSE DecVal(Tail(str), 10 * acc + DigitVal(Head(str)))

AllDigits(str) == \A k \in 1..Len(str) : IsDigit(str[k])

\* variant: a sign is not accepted, a negative text is NaN
ToNumber_Unsigned(str) ==
    IF str = << >> THEN Some(0)
    ELSE IF AllDigits(str) THEN Some(DecVal(str, 0))
    ELSE None

\* Number(text) for the texts of RawMins: the empty text is 0, an optionally
\* signed run of decimal digits is its value, anything else is NaN (None)
ToNumber(str) ==
    IF str = << >> THEN Some(0)
    ELSE IF AllDigits(str) THEN Some(DecVal(str, 0))
    ELSE IF Head(str) = "-" /\ Len(str) > 1 /\ AllDigits(Tail(str))
         THEN Some(0 - DecVal(Tail(str), 0))
    ELSE None

\* line 69: Number(req.query.min ?? 0)
MinOf(raw) == IF raw = None THEN Some(0) ELSE ToNumber(TheVal(raw))

\* lines 69 and 71: every comparison with NaN is false, so nothing is kept
Query(stations, raw) ==
    LET min == MinOf(raw)
    IN  IF min = None THEN << >> ELSE Filter(stations, TheVal(min))

(***************************************************************************)
(* Initial state: lines 24-25, no request in progress.                     *)
(***************************************************************************)
MainInit ==
    /\ cache = None
    /\ cacheDate = 0
    /\ now = StartMs
    /\ pc = [r \in Reqs |-> "idle"]
    /\ root = [r \in Reqs |-> None]
    /\ infoP = [r \in Reqs |-> None]
    /\ statusP = [r \in Reqs |-> None]
    /\ ret = [r \in Reqs |-> << >>]
    /\ resp = [r \in Reqs |-> NoResp]
    /\ calls = [r \in Reqs |-> NoCalls]
    /\ sameInstant = [r \in Reqs |-> FALSE]
    /\ lastPairAt = 0

JoinOff ==
    /\ jPc = "off"
    /\ jInfo = << >>
    /\ jStatus = << >>
    /\ jOut = << >>
    /\ qRaw = None
    /\ qOut = << >>

\* nothing is recorded about the callers or the feed fetches
HistOff ==
    /\ aborted = {}
    /\ pairAt = [r \in Reqs |-> 0]
    /\ cachePairAt = 0

\* no page is open
PageOff ==
    /\ pgMin = 0
    /\ pgStations = None
    /\ pgLoad = None
    /\ pgTimers = {}

Init == MainInit /\ JoinOff /\ HistOff /\ PageOff

\* variant: the error is swallowed and an empty list is answered
Catch_EmptyList(r) ==
    /\ pc' = [pc EXCEPT ![r] = "done"]
    /\ resp' = [resp EXCEPT ![r] = Ok200(<< >>, 0)]
    /\ root' = [root EXCEPT ![r] = None]
    /\ infoP' = [infoP EXCEPT ![r] = None]
    /\ statusP' = [statusP EXCEPT ![r] = None]
    /\ ret' = [ret EXCEPT ![r] = << >>]
    /\ sameInstant' = [sameInstant EXCEPT ![r] = FALSE]

(***************************************************************************)
(* The handler's catch block, lines 73-76: whatever fetchStations threw,   *)
(* answer 500.  The locals of the call are dropped.                        *)
(***************************************************************************)
Catch(r) ==
    /\ pc' = [pc EXCEPT ![r] = "done"]
    /\ resp' = [resp EXCEPT ![r] = Error500]
    /\ root' = [root EXCEPT ![r] = None]
    /\ infoP' = [infoP EXCEPT ![r] = None]
    /\ statusP' = [statusP EXCEPT ![r] = None]
    /\ ret' = [ret EXCEPT ![r] = << >>]
    /\ sameInstant' = [sameInstant EXCEPT ![r] = FALSE]

(***************************************************************************)
(* A request arrives: lines 67-70, then fetchStations up to its first      *)
(* await.  On a fresh cache fetchStations returns it (lines 29-31).        *)
(***************************************************************************)
RequestHit(r) ==
    /\ pc[r] = "idle"
    /\ IsFresh(now, cacheDate, cache)
    /\ pc' = [pc EXCEPT ![r] = "resume"]
    /\ ret' = [ret EXCEPT ![r] = TheVal(cache)]
    /\ UNCHANGED <<cache, cacheDate, now, root, infoP, statusP, resp, calls, sameInstant,
                   lastPairAt>>
    /\ UNCHANGED otherVars

\* variant: once a discovery document has been resolved it is kept, and a later
\* miss goes straight to the data feeds
RequestMiss_ReusesDiscovery(r) ==
    /\ pc[r] = "idle"
    /\ ~IsFresh(now, cacheDate, cache)
    /\ IF lastPairAt = 0
       THEN /\ pc' = [pc EXCEPT ![r] = "fetchRoot"]
            /\ calls' = [calls EXCEPT ![r].disc = @ + 1]
            /\ UNCHANGED lastPairAt
       ELSE /\ pc' = [pc EXCEPT ![r] = "awaitAll"]
            /\ calls' = [calls EXCEPT ![r].info = @ + 1, ![r].status = @ + 1]
            /\ lastPairAt' = now
    /\ sameInstant' = [sameInstant EXCEPT ![r] = TRUE]
    /\ UNCHANGED <<cache, cacheDate, now, root, infoP, statusP, ret, resp>>
    /\ UNCHANGED otherVars

\* variant: while a failed call is on record no refresh is started
RequestMiss_BlockedAfterFailure(r) ==
    /\ pc[r] = "idle"
    /\ ~IsFresh(now, cacheDate, cache)
    /\ \A q \in Reqs : ~(pc[q] = "done" /\ resp[q] = Error500)
    /\ pc' = [pc EXCEPT ![r] = "fetchRoot"]
    /\ calls' = [calls EXCEPT ![r].disc = @ + 1]
    /\ sameInstant' = [sameInstant EXCEPT ![r] = TRUE]
    /\ UNCHANGED <<cache, cacheDate, now, root, infoP, statusP, ret, resp, lastPairAt>>
    /\ UNCHANGED otherVars

\* Otherwise the discovery document is fetched (line 33).
RequestMiss(r) ==
    /\ pc[r] = "idle"
    /\ ~IsFresh(now, cacheDate, cache)
    /\ pc' = [pc EXCEPT ![r] = "fetchRoot"]
    /\ calls' = [calls EXCEPT ![r].disc = @ + 1]
    /\ sameInstant' = [sameInstant EXCEPT ![r] = TRUE]
    /\ UNCHANGED <<cache, cacheDate, now, root, infoP, statusP, ret, resp, lastPairAt>>
    /\ UNCHANGED otherVars

\* line 33 resolves: a response arrived (whatever its status); line 34 reads its body
RootResponse(r) ==
    /\ pc[r] = "fetchRoot"
    /\ pc' = [pc EXCEPT ![r] = "parseRoot"]
    /\ UNCHANGED <<cache, cacheDate, now, root, infoP, statusP, ret, resp, calls,
                   sameInstant, lastPairAt>>
    /\ UNCHANGED otherVars

\* variant: a discovery fetch that fails is issued a second time
RootFetchFails_RetriesOnce(r) ==
    /\ pc[r] = "fetchRoot"
    /\ IF calls[r].disc < 2
       THEN /\ calls' = [calls EXCEPT ![r].disc = @ + 1]
            /\ UNCHANGED <<pc, resp, root, infoP, statusP, ret, sameInstant>>
       ELSE /\ Catch(r)
            /\ UNCHANGED calls
    /\ UNCHANGED <<cache, cacheDate, now, lastPairAt>>
    /\ UNCHANGED otherVars

\* line 33 rejects: the request failed
RootFetchFails(r) ==
    /\ pc[r] = "fetchRoot"
    /\ Catch(r)
    /\ UNCHANGED <<cache, cacheDate, now, calls, lastPairAt>>
    /\ UNCHANGED otherVars

\* line 34 rejects: the body is not JSON
RootParseFails(r) ==
    /\ pc[r] = "parseRoot"
    /\ Catch(r)
    /\ UNCHANGED <<cache, cacheDate, now, calls, lastPairAt>>
    /\ UNCHANGED otherVars

(***************************************************************************)
(* line 34 resolves with body b; lines 36-43 run to the await.             *)
(*   b = None: root.data.en.feeds throws.                                  *)
(*   no station_information: infoFeed!.url throws before any fetch.        *)
(*   no station_status: fetch(infoFeed.url) was already called when        *)
(*     statusFeed!.url throws (array elements are evaluated in order).     *)
(*   an entry without url: fetch(undefined) sends nothing and returns a    *)
(*     rejected promise; line 40 goes on to the other fetch, then the      *)
(*     await rejects before any other callback runs.                       *)
(***************************************************************************)
RootParsed(r, b) ==
    /\ pc[r] = "parseRoot"
    /\ LET infoFeed == IF b = None THEN None ELSE FindFeed(TheVal(b), "station_information")
           statusFeed == IF b = None THEN None ELSE FindFeed(TheVal(b), "station_status")
       IN  IF b = None \/ infoFeed = None
           THEN /\ Catch(r)
                /\ UNCHANGED <<calls, lastPairAt>>
           ELSE IF statusFeed = None
           THEN /\ Catch(r)
                /\ calls' = [calls EXCEPT ![r].info = @ + 1]
                /\ UNCHANGED lastPairAt
           ELSE IF TheVal(infoFeed).url = None \/ TheVal(statusFeed).url = None
           THEN /\ Catch(r)
                /\ calls' = [calls EXCEPT
                      ![r].info = @ + (IF TheVal(infoFeed).url = None THEN 0 ELSE 1),
                      ![r].status = @ + (IF TheVal(statusFeed).url = None THEN 0 ELSE 1)]
                /\ UNCHANGED lastPairAt
           ELSE /\ pc' = [pc EXCEPT ![r] = "awaitAll"]
                /\ root' = [root EXCEPT ![r] = b]
                /\ calls' = [calls EXCEPT ![r].info = @ + 1, ![r].status = @ + 1]
                /\ lastPairAt' = now
                /\ UNCHANGED <<infoP, statusP, ret, resp, sameInstant>>
    /\ UNCHANGED <<cache, cacheDate, now>>
    /\ UNCHANGED otherVars

\* variant: the timestamp is taken before the join is built, so a join that
\* throws leaves a new cacheDate behind
JoinAndStore_StampFirst(r, info, status) ==
    /\ cacheDate' = now
    /\ IF info = None \/ status = None
       THEN /\ Catch(r)
            /\ UNCHANGED cache
       ELSE LET merged == Merge(TheVal(info), TheVal(status))
            IN  /\ cache' = Some(merged)
                /\ ret' = [ret EXCEPT ![r] = merged]
                /\ pc' = [pc EXCEPT ![r] = "resume"]
                /\ root' = [root EXCEPT ![r] = None]
                /\ infoP' = [infoP EXCEPT ![r] = None]
                /\ statusP' = [statusP EXCEPT ![r] = None]
                /\ sameInstant' = [sameInstant EXCEPT ![r] = FALSE]
                /\ UNCHANGED resp
    /\ UNCHANGED <<now, calls, lastPairAt>>
    /\ UNCHANGED otherVars

\* variant: only the list is replaced in this step; cacheDate is left for later
JoinAndStore_SplitWrite(r, info, status) ==
    /\ IF info = None \/ status = None
       THEN /\ Catch(r)
            /\ UNCHANGED <<cache, cacheDate>>
       ELSE LET merged == Merge(TheVal(info), TheVal(status))
            IN  /\ cache' = Some(merged)
                /\ UNCHANGED cacheDate
                /\ ret' = [ret EXCEPT ![r] = merged]
                /\ pc' = [pc EXCEPT ![r] = "resume"]
                /\ root' = [root EXCEPT ![r] = None]
                /\ infoP' = [infoP EXCEPT ![r] = None]
                /\ statusP' = [statusP EXCEPT ![r] = None]
                /\ sameInstant' = [sameInstant EXCEPT ![r] = FALSE]
                /\ UNCHANGED resp
    /\ UNCHANGED <<now, calls, lastPairAt>>
    /\ UNCHANGED otherVars

\* variant: a join that throws empties the cache
JoinAndStore_InvalidateOnFailure(r, info, status) ==
    /\ IF info = None \/ status = None
       THEN /\ Catch(r)
            /\ cache' = None
            /\ cacheDate' = 0
       ELSE LET merged == Merge(TheVal(info), TheVal(status))
            IN  /\ cache' = Some(merged)
                /\ cacheDate' = now
                /\ ret' = [ret EXCEPT ![r] = merged]
                /\ pc' = [pc EXCEPT ![r] = "resume"]
                /\ root' = [root EXCEPT ![r] = None]
                /\ infoP' = [infoP EXCEPT ![r] = None]
                /\ statusP' = [statusP EXCEPT ![r] = None]
                /\ sameInstant' = [sameInstant EXCEPT ![r] = FALSE]
                /\ UNCHANGED resp
    /\ UNCHANGED <<now, calls, lastPairAt>>
    /\ UNCHANGED otherVars

(***************************************************************************)
(* Lines 45-64, run with both bodies.  info.data.stations or               *)
(* status.data.stations missing throws before line 62.  Lines 62-63 run    *)
(* without an await between them.                                          *)
(***************************************************************************)
JoinAndStore(r, info, status) ==
    /\ IF info = None \/ status = None
       THEN /\ Catch(r)
            /\ UNCHANGED <<cache, cacheDate>>
       ELSE LET merged == Merge(TheVal(info), TheVal(status))
            IN  /\ cache' = Some(merged)
                /\ cacheDate' = now
                /\ ret' = [ret EXCEPT ![r] = merged]
                /\ pc' = [pc EXCEPT ![r] = "resume"]
                /\ root' = [root EXCEPT ![r] = None]
                /\ infoP' = [infoP EXCEPT ![r] = None]
                /\ statusP' = [statusP EXCEPT ![r] = None]
                /\ sameInstant' = [sameInstant EXCEPT ![r] = FALSE]
                /\ UNCHANGED resp
    /\ UNCHANGED <<now, calls, lastPairAt>>
    /\ UNCHANGED otherVars

(***************************************************************************)
(* Line 41 resolves with the parsed body b of the information feed.  While *)
(* the status promise is pending the function stays at its await.  When it *)
(* is the second of the two to resolve, Promise.all resolves and           *)
(* fetchStations resumes in the same microtask checkpoint, before any      *)
(* other callback of the process runs: lines 45-64 belong to this step.    *)
(***************************************************************************)
InfoResolved(r, b) ==
    /\ pc[r] = "awaitAll"
    /\ infoP[r] = None
    /\ IF statusP[r] = None
       THEN /\ infoP' = [infoP EXCEPT ![r] = Some(b)]
            /\ UNCHANGED <<cache, cacheDate, now, pc, root, statusP, ret, resp, calls,
                           sameInstant, lastPairAt>>
            /\ UNCHANGED otherVars
       ELSE JoinAndStore(r, b, TheVal(statusP[r]))

\* line 42 resolves, likewise
StatusResolved(r, b) ==
    /\ pc[r] = "awaitAll"
    /\ statusP[r] = None
    /\ IF infoP[r] = None
       THEN /\ statusP' = [statusP EXCEPT ![r] = Some(b)]
            /\ UNCHANGED <<cache, cacheDate, now, pc, root, infoP, ret, resp, calls,
                           sameInstant, lastPairAt>>
            /\ UNCHANGED otherVars
       ELSE JoinAndStore(r, TheVal(infoP[r]), b)

\* lines 41 and 42, .then((r) => r.json()): the body of the response is parsed
\* and passed on; r.ok and r.status are not read
InfoResponse(r, res) == InfoResolved(r, res.body)
StatusResponse(r, res) == StatusResolved(r, res.body)

\* variant: when the status body has arrived and the information fetch fails,
\* the status records are cached without information
FeedFails_CachesStatusOnly(r) ==
    /\ pc[r] = "awaitAll"
    /\ Catch(r)
    /\ IF statusP[r] # None /\ TheVal(statusP[r]) # None
       THEN /\ cache' = Some(Merge(<< >>, TheVal(TheVal(statusP[r]))))
            /\ cacheDate' = now
       ELSE UNCHANGED <<cache, cacheDate>>
    /\ UNCHANGED <<now, calls, lastPairAt>>
    /\ UNCHANGED otherVars

\* line 41 or 42 rejects (network error, body not JSON): Promise.all rejects at once
FeedFails(r) ==
    /\ pc[r] = "awaitAll"
    /\ Catch(r)
    /\ UNCHANGED <<cache, cacheDate, now, calls, lastPairAt>>
    /\ UNCHANGED otherVars

\* variant: the filtered list replaces the cached one
Respond_CachesFiltered(r, m) ==
    /\ pc[r] = "resume"
    /\ pc' = [pc EXCEPT ![r] = "done"]
    /\ resp' = [resp EXCEPT ![r] = Ok200(Filter(ret[r], m), m)]
    /\ ret' = [ret EXCEPT ![r] = << >>]
    /\ calls' = [calls EXCEPT ![r] = NoCalls]
    /\ cache' = Some(Filter(ret[r], m))
    /\ UNCHANGED <<cacheDate, now, root, infoP, statusP, sameInstant, lastPairAt>>
    /\ UNCHANGED otherVars

\* The handler resumes after its await: lines 71-72.  min is read at line 69 and
\* used nowhere before line 71, so it is drawn here, where it is used.
Respond(r, m) ==
    /\ pc[r] = "resume"
    /\ pc' = [pc EXCEPT ![r] = "done"]
    /\ resp' = [resp EXCEPT ![r] = Ok200(Filter(ret[r], m), m)]
    /\ ret' = [ret EXCEPT ![r] = << >>]
    /\ calls' = [calls EXCEPT ![r] = NoCalls]
    /\ UNCHANGED <<cache, cacheDate, now, root, infoP, statusP, sameInstant, lastPairAt>>
    /\ UNCHANGED otherVars

\* the exchange is over; the slot takes the next request
Close(r) ==
    /\ pc[r] = "done"
    /\ pc' = [pc EXCEPT ![r] = "idle"]
    /\ resp' = [resp EXCEPT ![r] = NoResp]
    /\ calls' = [calls EXCEPT ![r] = NoCalls]
    /\ UNCHANGED <<cache, cacheDate, now, root, infoP, statusP, ret, sameInstant, lastPairAt>>
    /\ UNCHANGED otherVars

\* variant: the clock may also be set back
Tick_StepsBack ==
    /\ \/ now < StartMs + MaxTicks * TickMs /\ now' = now + TickMs
       \/ now > StartMs /\ now' = now - TickMs
    /\ sameInstant' = [r \in Reqs |-> FALSE]
    /\ UNCHANGED <<cache, cacheDate, pc, root, infoP, statusP, ret, resp, calls,
                   lastPairAt>>
    /\ UNCHANGED otherVars

\* time passes
Tick ==
    /\ now < StartMs + MaxTicks * TickMs
    /\ now' = now + TickMs
    /\ sameInstant' = [r \in Reqs |-> FALSE]
    /\ UNCHANGED <<cache, cacheDate, pc, root, infoP, statusP, ret, resp, calls,
                   lastPairAt>>
    /\ UNCHANGED otherVars

Next ==
    \/ \E r \in Reqs : RequestHit(r)
    \/ \E r \in Reqs : RequestMiss(r)
    \/ \E r \in Reqs : RootResponse(r)
    \/ \E r \in Reqs : RootFetchFails(r)
    \/ \E r \in Reqs : RootParseFails(r)
    \/ \E r \in Reqs, b \in RootBodies : RootParsed(r, b)
    \/ \E r \in Reqs, res \in HttpResponses(InfoBodies) : InfoResponse(r, res)
    \/ \E r \in Reqs, res \in HttpResponses(StatusBodies) : StatusResponse(r, res)
    \/ \E r \in Reqs : FeedFails(r)
    \/ \E r \in Reqs, m \in MinValues : Respond(r, m)
    \/ \E r \in Reqs : Close(r)
    \/ Tick

Spec == Init /\ [][Next]_vars

(***************************************************************************)
(* The same server with what the event loop guarantees: a handler whose    *)
(* await has settled is resumed, and time passes.  Nothing guarantees that *)
(* an upstream answers: the fetches of lines 33, 41 and 42 are given no    *)
(* signal and no timeout, and the code sets no timer of its own.           *)
(***************************************************************************)
Fairness ==
    /\ WF_vars(Tick)
    /\ \A r \in Reqs : WF_vars(\E m \in MinValues : Respond(r, m))

SpecLive == Init /\ [][Next]_vars /\ Fairness

(***************************************************************************)
(* The server and its callers.  A client may drop its connection while its *)
(* request is being served.  The handler (lines 67-77) registers no        *)
(* listener on the request or its socket and fetchStations (lines 28-65)   *)
(* takes no signal: the departure changes nothing the code reads.  The     *)
(* answer is still written at line 72 or 75, to a closed connection.       *)
(***************************************************************************)
\* variant: the departure of the client ends the call at once
Abandon_CancelsRefresh(r) ==
    /\ pc[r] \in RefreshPcs
    /\ r \notin aborted
    /\ aborted' = aborted \cup {r}
    /\ Catch(r)
    /\ UNCHANGED <<cache, cacheDate, now, calls, lastPairAt>>
    /\ UNCHANGED <<pairAt, cachePairAt>>
    /\ UNCHANGED <<joinVars, pageVars>>

Abandon(r) ==
    /\ pc[r] \in RefreshPcs
    /\ r \notin aborted
    /\ aborted' = aborted \cup {r}
    /\ UNCHANGED <<pairAt, cachePairAt>>
    /\ UNCHANGED <<mainVars, joinVars, pageVars>>

\* the record of a departed client goes with its exchange
Forget(r) ==
    /\ r \in aborted
    /\ pc[r] = "idle"
    /\ aborted' = aborted \ {r}
    /\ UNCHANGED <<pairAt, cachePairAt>>
    /\ UNCHANGED <<mainVars, joinVars, pageVars>>

\* the requests that arrived and have no answer yet
Unanswered == { r \in Reqs : pc[r] \notin {"idle", "done"} }

\* the callers come one after another: a request arrives when the one before
\* it has its answer
OneAtATime == Cardinality(Unanswered) <= 1

\* a slot takes its next request when the record of the last one is dropped
NoReuse == \A r \in aborted : pc[r] = "idle" => pc'[r] = "idle"

CallersNext ==
    \/ Next /\ OneAtATime' /\ NoReuse
    \/ \E r \in Reqs : Abandon(r)
    \/ \E r \in Reqs : Forget(r)

SpecCallers == Init /\ [][CallersNext]_vars

(***************************************************************************)
(* The server with a record of when feed fetches were issued.  The code    *)
(* keeps no such record; each note below is taken right after the step of  *)
(* lines 40-43 or 62-63 it describes, before anything else happens, and    *)
(* changes nothing the code reads.                                         *)
(***************************************************************************)
\* lines 40-43 have just issued r's pair of fetches
NotePair(r) ==
    /\ pc[r] = "awaitAll"
    /\ pairAt[r] = 0
    /\ pairAt' = [pairAt EXCEPT ![r] = now]
    /\ UNCHANGED <<aborted, cachePairAt>>
    /\ UNCHANGED <<mainVars, joinVars, pageVars>>

\* lines 62-63 have just stored the join of the bodies r's pair brought back
NoteStore(r) ==
    /\ pc[r] = "resume"
    /\ pairAt[r] # 0
    /\ cachePairAt' = pairAt[r]
    /\ pairAt' = [pairAt EXCEPT ![r] = 0]
    /\ UNCHANGED aborted
    /\ UNCHANGED <<mainVars, joinVars, pageVars>>

\* r's await of line 40 has just thrown: nothing was stored
NoteFailed(r) ==
    /\ pc[r] = "done"
    /\ pairAt[r] # 0
    /\ pairAt' = [pairAt EXCEPT ![r] = 0]
    /\ UNCHANGED <<aborted, cachePairAt>>
    /\ UNCHANGED <<mainVars, joinVars, pageVars>>

\* a note is due
NoteDue ==
    \E r \in Reqs : (pc[r] = "awaitAll") = (pairAt[r] = 0)

RaceNext ==
    \/ ~NoteDue /\ Next
    \/ \E r \in Reqs : NotePair(r)
    \/ \E r \in Reqs : NoteStore(r)
    \/ \E r \in Reqs : NoteFailed(r)

SpecRace == Init /\ [][RaceNext]_vars

(***************************************************************************)
(* The web page (src/unnamed/part_001, lines 45-93; app/page.tsx and       *)
(* app/en/page.tsx have the same two effects).  A list on display is       *)
(* modelled by the min its request carried: the server answers a request   *)
(* for min with its list filtered by min.  A change of min re-renders the  *)
(* page and runs the cleanup and the body of both effects, which depend on *)
(* [min]; this is taken as one step.                                       *)
(***************************************************************************)
\* the values the number input of line 134 can set
PageMins == {0, 1, 3}

\* the page is mounted: min is 0, the list is empty, the load effect (lines
\* 53-79) has issued its request and the interval of line 83 is set
PageInit ==
    /\ MainInit
    /\ JoinOff
    /\ HistOff
    /\ pgMin = 0
    /\ pgStations = None
    /\ pgLoad = Some(0)
    /\ pgTimers = {}

\* line 134, setMin(m).  Cleanup of the load effect (lines 75-78): cancelled =
\* true and ac.abort(), its request will set nothing; its body issues the
\* request for m.  Cleanup of the interval effect (line 92): clearInterval
\* stops the timer; the AbortController of line 84 is never aborted and the
\* requests already issued keep their callbacks.
SetMin(m) ==
    /\ m # pgMin
    /\ pgMin' = m
    /\ pgLoad' = Some(m)
    /\ UNCHANGED <<pgStations, pgTimers>>
    /\ UNCHANGED <<mainVars, joinVars, histVars>>

\* line 60 resolves and cancelled is false: line 62, setStations(data)
LoadResolved ==
    /\ pgLoad # None
    /\ pgStations' = pgLoad
    /\ pgLoad' = None
    /\ UNCHANGED <<pgMin, pgTimers>>
    /\ UNCHANGED <<mainVars, joinVars, histVars>>

\* line 60 rejects: lines 65-68 set the error, the list stays
LoadRejected ==
    /\ pgLoad # None
    /\ pgLoad' = None
    /\ UNCHANGED <<pgMin, pgStations, pgTimers>>
    /\ UNCHANGED <<mainVars, joinVars, histVars>>

\* the timer of line 83 fires: line 85 issues a request for the min of the
\* render that set the timer, which is the current one.  Requests in flight
\* for the same min are not told apart.
IntervalFires ==
    /\ pgMin \notin pgTimers
    /\ pgTimers' = pgTimers \cup {pgMin}
    /\ UNCHANGED <<pgMin, pgStations, pgLoad>>
    /\ UNCHANGED <<mainVars, joinVars, histVars>>

\* a request of line 85, issued for m, resolves: line 87, setStations(data)
TimerResolved(m) ==
    /\ m \in pgTimers
    /\ pgStations' = Some(m)
    /\ pgTimers' = pgTimers \ {m}
    /\ UNCHANGED <<pgMin, pgLoad>>
    /\ UNCHANGED <<mainVars, joinVars, histVars>>

\* it rejects: line 90 swallows the error
TimerRejected(m) ==
    /\ m \in pgTimers
    /\ pgTimers' = pgTimers \ {m}
    /\ UNCHANGED <<pgMin, pgStations, pgLoad>>
    /\ UNCHANGED <<mainVars, joinVars, histVars>>

PageNext ==
    \/ \E m \in PageMins : SetMin(m)
    \/ LoadResolved
    \/ LoadRejected
    \/ IntervalFires
    \/ \E m \in PageMins : TimerResolved(m)
    \/ \E m \in PageMins : TimerRejected(m)

SpecPage == PageInit /\ [][PageNext]_vars

(***************************************************************************)
(* The join and the filter on their own: feeds drawn from InfoFeeds and    *)
(* StatusFeeds, lines 45-60 applied to them, then lines 69-71 applied to   *)
(* the joined list.                                                        *)
(***************************************************************************)
JoinInit ==
    /\ MainInit
    /\ HistOff
    /\ PageOff
    /\ jPc = "drawn"
    /\ jInfo \in InfoFeeds
    /\ jStatus \in StatusFeeds
    /\ jOut = << >>
    /\ qRaw = None
    /\ qOut = << >>

ApplyJoin ==
    /\ jPc = "drawn"
    /\ jPc' = "joined"
    /\ jOut' = Merge(jInfo, jStatus)
    /\ UNCHANGED <<jInfo, jStatus, qRaw, qOut>>
    /\ UNCHANGED <<mainVars, histVars, pageVars>>

\* the handler's lines 69-71 on the joined list, for a request carrying raw
ApplyQuery(raw) ==
    /\ jPc = "joined"
    /\ jPc' = "queried"
    /\ qRaw' = raw
    /\ qOut' = Query(jOut, raw)
    /\ UNCHANGED <<jInfo, jStatus, jOut>>
    /\ UNCHANGED <<mainVars, histVars, pageVars>>

JoinNext ==
    \/ ApplyJoin
    \/ \E raw \in RawMins : ApplyQuery(raw)

SpecJoin == JoinInit /\ [][JoinNext]_vars

(***************************************************************************)
(* Properties.                                                             *)
(***************************************************************************)
RECURSIVE SumOver(_, _)
SumOver(S, f) ==
    IF S = {} THEN 0
    ELSE LET x == CHOOSE y \in S : TRUE IN f[x] + SumOver(S \ {x}, f)

AllCalls == [disc |-> 1, info |-> 1, status |-> 1]

\* the calls whose refresh is in flight
Refreshing == { r \in Reqs : pc[r] \in RefreshPcs }

\* this step ends r's refresh without a snapshot
RefreshFails(r) == pc[r] \in RefreshPcs /\ pc'[r] \notin (RefreshPcs \cup {"resume"})

\* this step ends r's refresh with a snapshot
RefreshSucceeds(r) == pc[r] \in RefreshPcs /\ pc'[r] = "resume"

\* this step issues r's pair of data-feed fetches
IssuesPair(r) ==
    /\ calls'[r].info = calls[r].info + 1
    /\ calls'[r].status = calls[r].status + 1

\* the cached list is the join of an information body with a status body
CompleteJoins ==
    { Merge(TheVal(i), TheVal(s)) : i \in InfoBodies \ {None}, s \in StatusBodies \ {None} }

(* C1: at most one refresh is in flight at any time: the calls that passed the
   TTL check of line 29 and have not finished their refresh number at most 1
   (a caller that finds the cache expired or empty during a refresh does not
   start its own). *)
C1_AtMostOneRefresh == Cardinality(Refreshing) <= 1

(* C2: the calls issued at one instant on an expired or absent snapshot, and
   still in progress, have caused between them at most one discovery fetch,
   one station_information fetch and one station_status fetch. *)
C2_ConcurrentCallsFetchOnce ==
    LET S == { r \in Reqs : sameInstant[r] }
    IN  /\ SumOver(S, [r \in Reqs |-> calls[r].disc]) <= 1
        /\ SumOver(S, [r \in Reqs |-> calls[r].info]) <= 1
        /\ SumOver(S, [r \in Reqs |-> calls[r].status]) <= 1

(* C3: stale preferred on failure: when a refresh fails while the cache holds
   a snapshot from an earlier refresh (cacheDate < now, and the failing refresh
   began at the current clock value, so after that snapshot was stored), the
   request is answered 200 with that snapshot filtered by its min, not 500. *)
C3_StalePreferredOnFailure ==
    [][ \A r \in Reqs :
          (RefreshFails(r) /\ sameInstant[r] /\ cache # None /\ cacheDate < now)
            => /\ resp'[r].status = 200
               /\ resp'[r].body = Filter(TheVal(cache), resp'[r].min) ]_vars

(* C4: a cache hit does no I/O and is idempotent: a call that finds a snapshot
   younger than CACHE_MS gets that snapshot, issues no fetch, and leaves cache
   and cacheDate as they were; and as long as the clock stands still within
   the TTL, query(0) on the cache keeps giving the same result. *)
C4_HitIsIdempotent ==
    [][ /\ \A r \in Reqs :
             (pc[r] = "idle" /\ pc'[r] # "idle" /\ cache # None /\ now - cacheDate < CACHE_MS)
               => /\ pc'[r] = "resume"
                  /\ ret'[r] = TheVal(cache)
                  /\ calls'[r] = NoCalls
                  /\ cache' = cache
                  /\ cacheDate' = cacheDate
        /\ (cache # None /\ now - cacheDate < CACHE_MS /\ now' = now)
             => Filter(TheVal(cache'), 0) = Filter(TheVal(cache), 0) ]_vars

(* C5: a miss or an expiry triggers a full refresh: a call that finds no
   snapshot, or one aged CACHE_MS or more (exactly CACHE_MS included), fetches
   the discovery document; a refresh that succeeds has fetched discovery and
   both feeds once each, returns the join of the two bodies it received, and
   in that step the join becomes the cache with cacheDate the current time. *)
C5_MissTriggersFullRefresh ==
    [][ \A r \in Reqs :
          /\ (pc[r] = "idle" /\ pc'[r] # "idle" /\ (cache = None \/ now - cacheDate >= CACHE_MS))
               => /\ pc'[r] = "fetchRoot"
                  /\ calls'[r] = [disc |-> 1, info |-> 0, status |-> 0]
          /\ RefreshSucceeds(r)
               => /\ calls[r] = AllCalls
                  /\ \E i \in InfoBodies \ {None}, s \in StatusBodies \ {None} :
                       /\ infoP[r] \in {None, Some(i)}
                       /\ statusP[r] \in {None, Some(s)}
                       /\ ret'[r] = Merge(TheVal(i), TheVal(s))
                  /\ cache' = Some(ret'[r])
                  /\ cacheDate' = now' ]_vars

\* a refresh has just succeeded, CACHE_MS after the process started: the join it
\* returns is the cache, stamped with the current time
C5_Witness ==
    \E r \in Reqs :
        /\ pc[r] = "resume"
        /\ calls[r] = AllCalls
        /\ cache = Some(ret[r])
        /\ cacheDate = now
        /\ now = StartMs + CACHE_MS

(* C6: a failed refresh never modifies the cache: whichever of the discovery
   fetch, the feed lookup, a data-feed fetch or the join fails, cache and
   cacheDate are after that step what they were before it. *)
C6_FailedRefreshKeepsCache ==
    [][ \A r \in Reqs :
          RefreshFails(r) => (cache' = cache /\ cacheDate' = cacheDate) ]_vars

\* The latest pair of data fetches was issued now, after the snapshot was
\* captured, by a call that did not store its result; r, the only call not
\* closed, fetched both feeds and was answered 500; the snapshot is still there.
C6_Witness ==
    \E r \in Reqs :
        /\ pc[r] = "done"
        /\ resp[r] = Error500
        /\ calls[r] = AllCalls
        /\ cache # None
        /\ cacheDate < now
        /\ lastPairAt = now
        /\ \A q \in Reqs \ {r} : pc[q] = "idle"

(* C7: a refresh that fails when nothing was ever cached is answered 500,
   never a list; every request is answered once: nothing before its handler
   ends, then either 200 with the filtered list or 500, and an answer sent is
   never replaced. *)
C7_OneResponsePerRequest ==
    /\ [](\A r \in Reqs :
            /\ pc[r] # "done" => resp[r] = NoResp
            /\ pc[r] = "done" => resp[r].status \in {200, 500})
    /\ [][ \A r \in Reqs :
             /\ (RefreshFails(r) /\ cache = None)
                  => (pc'[r] = "done" /\ resp'[r] = Error500)
             /\ (pc[r] = "resume" /\ pc'[r] # "resume")
                  => /\ pc'[r] = "done"
                     /\ resp'[r] = Ok200(Filter(ret[r], resp'[r].min), resp'[r].min)
             /\ resp[r] # NoResp
                  => (resp'[r] = resp[r] \/ (resp'[r] = NoResp /\ pc'[r] = "idle")) ]_vars

\* a refresh was answered 500 and nothing has been cached yet
C7_Witness ==
    \E r \in Reqs :
        /\ pc[r] = "done"
        /\ resp[r] = Error500
        /\ calls[r].disc = 1
        /\ cache = None
        /\ cacheDate = 0

(* C8: no partially built snapshot is visible: the cache is empty or the
   complete join of one information body with one status body, and cache and
   cacheDate change only together, in the step of a refresh that stores its
   join: the list becomes that join and cacheDate the current time. *)
C8_NoPartialSnapshot ==
    /\ [](cache = None \/ TheVal(cache) \in CompleteJoins)
    /\ [][ (cache' # cache \/ cacheDate' # cacheDate)
             => /\ cacheDate' = now'
                /\ \E r \in Reqs : RefreshSucceeds(r) /\ cache' = Some(ret'[r]) ]_vars

\* a snapshot replaced another while a second refresh was in flight
C8_Witness ==
    \E r \in Reqs :
        /\ pc[r] = "resume"
        /\ calls[r] = AllCalls
        /\ cache = Some(ret[r])
        /\ cacheDate = now
        /\ now > StartMs
        /\ \E q \in Reqs \ {r} : pc[q] = "awaitAll"

(* C9: at most one pair of data-feed fetches per TTL window: a pair is issued
   only when none was issued less than CACHE_MS before. *)
C9_OnePairPerWindow ==
    [][ \A r \in Reqs :
          IssuesPair(r) => (lastPairAt = 0 \/ now - lastPairAt >= CACHE_MS) ]_vars

(* C10: the join is a left join on the status feed: the result has one view
   per status record, in place, carrying that record's identifier, bike count
   and dock count, whether or not the information feed knows the station. *)
C10_LeftJoinOnStatus ==
    jPc = "joined" =>
        /\ Len(jOut) = Len(jStatus)
        /\ \A k \in 1..Len(jStatus) :
             /\ jOut[k].id = jStatus[k].station_id
             /\ jOut[k].bikes = jStatus[k].num_bikes_available
             /\ jOut[k].docks = jStatus[k].num_docks_available

\* joined: two status records, one known to the information feed and one not
C10_Witness ==
    /\ jPc = "joined"
    /\ Len(jStatus) = 2
    /\ Len(jOut) = 2
    /\ \E k \in 1..2 : \A j \in 1..Len(jInfo) : jInfo[j].station_id # jStatus[k].station_id
    /\ \E k \in 1..2 : \E j \in 1..Len(jInfo) : jInfo[j].station_id = jStatus[k].station_id

\* the positions of the information feed that carry the identifier id
InfoHits(id) == { j \in 1..Len(jInfo) : jInfo[j].station_id = id }

(* C11: a status record whose identifier is absent from the information feed
   yields a view with name, lat, lon and address unset and with the record's
   bike and dock counts, and the join still yields one view per status record;
   a status record whose identifier is present yields a view whose name, lat,
   lon and address are those of one information record with that identifier. *)
C11_AbsentInfoLeavesFieldsUnset ==
    jPc # "drawn" =>
        /\ Len(jOut) = Len(jStatus)
        /\ \A k \in 1..Len(jStatus) :
             IF InfoHits(jStatus[k].station_id) = {}
             THEN /\ jOut[k].name = None
                  /\ jOut[k].lat = None
                  /\ jOut[k].lon = None
                  /\ jOut[k].address = None
                  /\ jOut[k].bikes = jStatus[k].num_bikes_available
                  /\ jOut[k].docks = jStatus[k].num_docks_available
             ELSE \E j \in InfoHits(jStatus[k].station_id) :
                  /\ jOut[k].name = Some(jInfo[j].name)
                  /\ jOut[k].lat = Some(jInfo[j].lat)
                  /\ jOut[k].lon = Some(jInfo[j].lon)
                  /\ jOut[k].address = jInfo[j].address

\* joined: the first status record has no information and its view has no name;
\* the second has information with an address, and its view carries it
C11_Witness ==
    /\ jPc = "joined"
    /\ Len(jStatus) = 2
    /\ InfoHits(jStatus[1].station_id) = {}
    /\ jOut[1].name = None
    /\ InfoHits(jStatus[2].station_id) # {}
    /\ jOut[2].address # None

\* the texts of RawMins that are numerals, each with the integer it denotes
Numerals ==
    { <<Some(<<"0">>), 0>>, <<Some(<<"1">>), 1>>, <<Some(<<"3">>), 3>>,
      <<Some(<<"1", "0">>), 10>>, <<Some(<<"-", "1">>), 0 - 1>>,
      <<Some(<<"-", "5">>), 0 - 5>> }

\* query(0) on the joined list
QueryZero == Query(jOut, Some(<<"0">>))

(* C12: filtering law: for every threshold n, query(n) is exactly the views of
   query(0), in place, whose bike count is >= n, a view without a bike count
   counting as 0; and query(0) is every view of the snapshot, those with 0
   bikes included. *)
C12_FilteringLaw ==
    jPc = "queried" =>
        /\ QueryZero = jOut
        /\ \A p \in Numerals :
             qRaw = p[1] =>
                LET AtLeast(v) == (IF v.bikes = None THEN 0 ELSE TheVal(v.bikes)) >= p[2]
                IN  qOut = SelectSeq(QueryZero, AtLeast)

\* query(1) on a list holding a view without a bike count and a view with 2
\* bikes: only the second is answered
C12_Witness ==
    /\ jPc = "queried"
    /\ qRaw = Some(<<"1">>)
    /\ Len(jOut) = 2
    /\ jOut[1].bikes = None
    /\ jOut[2].bikes = Some(2)
    /\ qOut = <<jOut[2]>>

(* C13: a negative threshold behaves as 0 and is never rejected: for a
   negative min, and for a request without min, the list answered is the one
   query(0) answers. *)
C13_NegativeMinClampsToZero ==
    jPc = "queried" =>
        /\ \A p \in Numerals : (p[2] < 0 /\ qRaw = p[1]) => qOut = QueryZero
        /\ qRaw = None => qOut = QueryZero

\* query(-5) on a list of two views, one of them with 0 bikes: both are answered
C13_Witness ==
    /\ jPc = "queried"
    /\ qRaw = Some(<<"-", "5">>)
    /\ Len(jOut) = 2
    /\ \E k \in 1..2 : jOut[k].bikes = Some(0)
    /\ qOut = jOut

(* C14: identifiers are unique within a snapshot: no two views of the joined
   list share an identifier, and an identifier the status feed carries more
   than once has the view of its last status record. *)
C14_UniqueIdentifiers ==
    jPc # "drawn" =>
        /\ \A j, k \in 1..Len(jOut) : j # k => jOut[j].id # jOut[k].id
        /\ \A k \in 1..Len(jStatus) :
             (\A l \in (k + 1)..Len(jStatus) : jStatus[l].station_id # jStatus[k].station_id)
               => \E j \in 1..Len(jOut) :
                    /\ jOut[j].id = jStatus[k].station_id
                    /\ jOut[j].bikes = jStatus[k].num_bikes_available
                    /\ jOut[j].docks = jStatus[k].num_docks_available

\* a is b with some elements left out, the others in the same relative order
IsSubsequence(a, b) ==
    \E f \in [1..Len(a) -> 1..Len(b)] :
        /\ \A i \in 1..Len(a) : a[i] = b[f[i]]
        /\ \A i, j \in 1..Len(a) : i < j => f[i] < f[j]

(* C17: order is preserved end to end: the views of the joined list stand in
   the order of the records of the status feed, and the list a query answers
   is a subsequence of the joined list in the same relative order. *)
C17_OrderPreserved ==
    jPc = "queried" =>
        /\ Len(jOut) = Len(jStatus)
        /\ \A k \in 1..Len(jStatus) :
             /\ jOut[k].id = jStatus[k].station_id
             /\ jOut[k].bikes = jStatus[k].num_bikes_available
        /\ IsSubsequence(qOut, jOut)

\* the status feed lists B before A, with more bikes at A; the joined list and
\* the list answered to query(1) both list B before A
C17_Witness ==
    /\ jPc = "queried"
    /\ qRaw = Some(<<"1">>)
    /\ Len(jStatus) = 2
    /\ jStatus[1].station_id = "B"
    /\ jStatus[2].station_id = "A"
    /\ Len(qOut) = 2
    /\ qOut[1].id = "B"
    /\ qOut[1].bikes = Some(2)
    /\ qOut[2].id = "A"
    /\ qOut[2].bikes = Some(5)

(* C15: the capture timestamp never decreases: in every step of every
   interleaving of refreshes, failed or not, cacheDate is after the step at
   least what it was before it. *)
C15_CacheDateNeverDecreases == [][cacheDate' >= cacheDate]_vars

\* r has just stored its join, after the process started; q was served from the
\* cache before that and holds a different list: r's write replaced a snapshot
C15_Witness ==
    \E r, q \in Reqs :
        /\ pc[r] = "resume"
        /\ calls[r] = AllCalls
        /\ cache = Some(ret[r])
        /\ cacheDate = now
        /\ now > StartMs
        /\ pc[q] = "resume"
        /\ calls[q] = NoCalls
        /\ ret[q] # ret[r]

(* C16: filtering is a read-only projection: the step that filters and answers
   leaves the cached list, the order of its views and cacheDate as they were,
   whatever the threshold; query(0) on the cache after that step still gives
   every view the cache held before it. *)
C16_FilterIsReadOnly ==
    [][ \A r \in Reqs :
          (pc[r] = "resume" /\ pc'[r] = "done")
            => /\ cache' = cache
               /\ cacheDate' = cacheDate
               /\ cache # None => Filter(TheVal(cache'), 0) = TheVal(cache) ]_vars

\* r was answered query(1) from the cached list, fewer views than the list has;
\* the list is still whole and within its TTL
C16_Witness ==
    \E r \in Reqs :
        /\ pc[r] = "done"
        /\ resp[r].status = 200
        /\ resp[r].min = 1
        /\ cache # None
        /\ now - cacheDate < CACHE_MS
        /\ resp[r].body = Filter(TheVal(cache), 1)
        /\ Len(resp[r].body) < Len(TheVal(cache))
        /\ TheVal(cache) \in CompleteJoins

(* C18: both data feeds must succeed before anything is cached: a refresh that
   ends at the await of line 40 without both bodies joined (one fetch failed,
   whether or not the other had succeeded) is answered 500, returns no list and
   leaves cache and cacheDate alone; and a call leaves that await with a list
   only when the second of the two bodies arrives, the list cached in that
   step being the join of the information body and the status body. *)
C18_BothFeedsMustSucceed ==
    [][ \A r \in Reqs :
          /\ (pc[r] = "awaitAll" /\ pc'[r] \notin {"awaitAll", "resume"})
               => /\ pc'[r] = "done"
                  /\ resp'[r] = Error500
                  /\ ret'[r] = << >>
                  /\ cache' = cache
                  /\ cacheDate' = cacheDate
          /\ (pc[r] = "awaitAll" /\ pc'[r] = "resume")
               => /\ (infoP[r] = None) # (statusP[r] = None)
                  /\ \E i \in InfoBodies \ {None}, s \in StatusBodies \ {None} :
                       /\ infoP[r] \in {None, Some(i)}
                       /\ statusP[r] \in {None, Some(s)}
                       /\ cache' = Some(Merge(TheVal(i), TheVal(s))) ]_vars

\* r issued both data fetches at the current time, its refresh failed and it was
\* answered 500; nothing has ever been cached
C18_Witness ==
    \E r \in Reqs :
        /\ pc[r] = "done"
        /\ resp[r] = Error500
        /\ calls[r] = AllCalls
        /\ lastPairAt = now
        /\ cache = None
        /\ cacheDate = 0

\* discovery documents whose feed list lacks one of the two named entries
RootsMissingFeed ==
    { b \in RootBodies \ {None} :
        \/ FindFeed(TheVal(b), "station_information") = None
        \/ FindFeed(TheVal(b), "station_status") = None }

(* C19: when the feed list lacks station_information or station_status, the
   refresh fails, the cache is not written, and that refresh issues no
   data-feed fetch, also when only one of the two entries is missing. *)
C19_FeedNotFoundIssuesNoFetch ==
    [][ \A r \in Reqs, b \in RootsMissingFeed :
          RootParsed(r, b)
            => /\ pc'[r] = "done"
               /\ resp'[r] = Error500
               /\ cache' = cache
               /\ cacheDate' = cacheDate
               /\ calls'[r] = calls[r] ]_vars

\* discovery payloads without the expected structure: no feed list, or a named
\* entry without url
RootsMalformed ==
    { b \in RootBodies :
        \/ b = None
        \/ \E k \in 1..Len(TheVal(b)) : TheVal(b)[k].url = None }

(* C20: when the discovery request errors, or its payload does not have the
   expected structure, the refresh fails before any data-feed fetch is issued
   and the cache is not written. *)
C20_DiscoveryErrorIssuesNoFetch ==
    [][ \A r \in Reqs :
          (\/ RootFetchFails(r)
           \/ RootParseFails(r)
           \/ \E b \in RootsMalformed : RootParsed(r, b))
            => /\ pc'[r] = "done"
               /\ resp'[r] = Error500
               /\ cache' = cache
               /\ cacheDate' = cacheDate
               /\ calls'[r] = [disc |-> 1, info |-> 0, status |-> 0] ]_vars

(* C21: a data-feed fetch answered with a non-success HTTP status makes the
   refresh fail and nothing is cached, whatever the body of that response:
   the step that receives such a response ends the call with 500 and leaves
   cache and cacheDate alone. *)
C21_NonSuccessResponseFails ==
    [][ \A r \in Reqs :
          (\/ \E res \in HttpResponses(InfoBodies) : ~res.ok /\ InfoResponse(r, res)
           \/ \E res \in HttpResponses(StatusBodies) : ~res.ok /\ StatusResponse(r, res))
            => /\ pc'[r] = "done"
               /\ resp'[r] = Error500
               /\ cache' = cache
               /\ cacheDate' = cacheDate ]_vars

(* C22: no operation blocks indefinitely: every call that has started
   eventually completes, with a list or with an error, even when an upstream
   fetch never responds. *)
C22_EveryCallCompletes ==
    \A r \in Reqs : (pc[r] \in RefreshPcs \cup {"resume"}) ~> (pc[r] = "done")

\* the last position of the information feed that carries the identifier id
LastInfoHit(id) == CHOOSE j \in InfoHits(id) : \A l \in InfoHits(id) : l <= j

(* C25: when the information feed carries an identifier more than once, the
   lookup keeps the later record: the view of a status record with that
   identifier has the name, coordinates and address of the last information
   record carrying it. *)
C25_LastInformationWins ==
    jPc # "drawn" =>
        \A k \in 1..Len(jStatus) :
            InfoHits(jStatus[k].station_id) # {} =>
                LET i == jInfo[LastInfoHit(jStatus[k].station_id)]
                IN  /\ InfoById(jInfo)[jStatus[k].station_id] = i
                    /\ jOut[k].name = Some(i.name)
                    /\ jOut[k].lat = Some(i.lat)
                    /\ jOut[k].lon = Some(i.lon)
                    /\ jOut[k].address = i.address

\* joined: two information records for one identifier, with different names and
\* one of them without address; the view has the fields of the second
C25_Witness ==
    /\ jPc = "joined"
    /\ Len(jInfo) = 2
    /\ jInfo[1].station_id = jInfo[2].station_id
    /\ jInfo[1].name # jInfo[2].name
    /\ jInfo[1].address # jInfo[2].address
    /\ Len(jStatus) >= 1
    /\ jStatus[1].station_id = jInfo[2].station_id
    /\ jOut[1].name = Some(jInfo[2].name)
    /\ jOut[1].address = jInfo[2].address

(* C26: no automatic retry: within one call the discovery document is fetched
   at most once and each data feed at most once; the step in which an upstream
   failure surfaces ends the call with 500, and a call that has ended issues
   no further upstream request. *)
C26_NoRetry ==
    /\ [](\A r \in Reqs :
            calls[r].disc <= 1 /\ calls[r].info <= 1 /\ calls[r].status <= 1)
    /\ [][ \A r \in Reqs :
             /\ RefreshFails(r) => (pc'[r] = "done" /\ resp'[r] = Error500)
             /\ pc[r] = "done"
                  => /\ pc'[r] \in {"done", "idle"}
                     /\ calls'[r] \in {calls[r], NoCalls} ]_vars

\* after the process started, r's discovery fetch failed: r was answered 500
\* having issued that one fetch, and no data feed has ever been fetched
C26_Witness ==
    \E r \in Reqs :
        /\ pc[r] = "done"
        /\ resp[r] = Error500
        /\ calls[r] = [disc |-> 1, info |-> 0, status |-> 0]
        /\ lastPairAt = 0
        /\ cache = None
        /\ now > StartMs

\* the feed named name is listed with a url in the discovery document b
ListsUrl(b, name) ==
    /\ b # None
    /\ FindFeed(TheVal(b), name) # None
    /\ TheVal(FindFeed(TheVal(b), name)).url # None

(* C27: the discovery document is never cached: a call whose refresh is under
   way has issued its own discovery fetch; the parsed document is held only by
   the call that awaits the feeds it lists and is dropped when the call leaves
   that await; a data-feed fetch is issued only in the step that resumes the
   call from the parsed discovery response, for a feed which that response
   lists with a url. *)
C27_DiscoveryNeverCached ==
    /\ [](\A r \in Reqs :
            /\ pc[r] \in RefreshPcs => calls[r].disc = 1
            /\ pc[r] = "awaitAll" <=> root[r] # None
            /\ pc[r] = "awaitAll"
                 => ListsUrl(root[r], "station_information")
                    /\ ListsUrl(root[r], "station_status"))
    /\ [][ \A r \in Reqs :
             /\ (pc[r] = "idle" /\ pc'[r] \in RefreshPcs)
                  => (pc'[r] = "fetchRoot" /\ calls'[r].disc = calls[r].disc + 1)
             /\ (calls'[r].info > calls[r].info \/ calls'[r].status > calls[r].status)
                  => /\ pc[r] = "parseRoot"
                     /\ \E b \in RootBodies :
                          /\ RootParsed(r, b)
                          /\ calls'[r].info > calls[r].info
                               => ListsUrl(b, "station_information")
                          /\ calls'[r].status > calls[r].status
                               => ListsUrl(b, "station_status") ]_vars

\* a second refresh, over an expired snapshot, awaits the feeds listed by the
\* discovery document it fetched itself
C27_Witness ==
    \E r \in Reqs :
        /\ pc[r] = "awaitAll"
        /\ calls[r] = AllCalls
        /\ ListsUrl(root[r], "station_information")
        /\ ListsUrl(root[r], "station_status")
        /\ cache # None
        /\ now - cacheDate >= CACHE_MS

(* C28: cache lifecycle: the cache starts empty; it goes from empty to holding
   a snapshot only in a step in which a refresh succeeds; once it holds a
   snapshot it never becomes empty again; and in every reachable state
   cacheDate is 0 exactly when no snapshot has been cached. *)
C28_CacheLifecycle ==
    /\ (cache = None /\ cacheDate = 0)
    /\ [](cache = None <=> cacheDate = 0)
    /\ [][ /\ cache # None => cache' # None
           /\ (cache = None /\ cache' # None) => \E r \in Reqs : RefreshSucceeds(r) ]_vars

\* the snapshot of an earlier refresh has expired and the refresh that followed
\* failed after fetching both feeds: the expired snapshot is still held
C28_Witness ==
    \E r \in Reqs :
        /\ pc[r] = "done"
        /\ resp[r] = Error500
        /\ calls[r] = AllCalls
        /\ cache # None
        /\ cacheDate = StartMs
        /\ now - cacheDate >= CACHE_MS
        /\ lastPairAt > cacheDate

(* C23: a failed refresh does not block later ones: the step in which a
   refresh fails leaves cache and cacheDate, hence the verdict of the TTL
   test, as they were; a slot that is free while the cache is empty or expired
   can start a refresh and cannot be served from the cache; a call that starts
   then fetches the discovery document; and a refresh that succeeds stores its
   join with the current time and the call answers 200 with that join,
   filtered. *)
C23_FailedRefreshDoesNotBlock ==
    /\ [](\A r \in Reqs :
            (pc[r] = "idle" /\ ~IsFresh(now, cacheDate, cache))
              => (ENABLED RequestMiss(r) /\ ~ENABLED RequestHit(r)))
    /\ [][ \A r \in Reqs :
             /\ RefreshFails(r)
                  => IsFresh(now', cacheDate', cache') = IsFresh(now, cacheDate, cache)
             /\ (pc[r] = "idle" /\ pc'[r] # "idle" /\ ~IsFresh(now, cacheDate, cache))
                  => (pc'[r] = "fetchRoot" /\ calls'[r].disc = 1)
             /\ RefreshSucceeds(r) => (cache' = Some(ret'[r]) /\ cacheDate' = now')
             /\ (pc[r] = "resume" /\ pc'[r] = "done")
                  => \E m \in MinValues : resp'[r] = Ok200(Filter(ret[r], m), m) ]_vars

\* q's refresh failed after fetching both feeds and q was answered 500; r, which
\* arrived after that answer (the callers come one at a time), found the cache
\* empty, refreshed, and returns the join it has just stored
C23_Witness ==
    \E q \in Reqs : \E r \in Reqs \ {q} :
        /\ pc[q] = "done"
        /\ resp[q] = Error500
        /\ calls[q] = AllCalls
        /\ pc[r] = "resume"
        /\ calls[r] = AllCalls
        /\ cache = Some(ret[r])
        /\ cacheDate = now
        /\ lastPairAt = now

(* C24: refresh completion is independent of caller cancellation: the
   departure of a client changes nothing of the server's state; the refresh of
   a departed client can take each of its next steps; when it succeeds the
   join is stored with the current time; and a call that arrives while that
   snapshot is fresh is served from the cache without any fetch. *)
C24_RefreshSurvivesCancellation ==
    /\ [](\A r \in aborted :
            /\ pc[r] = "fetchRoot" => ENABLED RootResponse(r)
            /\ pc[r] = "parseRoot" => ENABLED (\E b \in RootBodies : RootParsed(r, b))
            /\ pc[r] = "awaitAll"
                 => \/ ENABLED (\E res \in HttpResponses(InfoBodies) : InfoResponse(r, res))
                    \/ ENABLED (\E res \in HttpResponses(StatusBodies) : StatusResponse(r, res)))
    /\ [][ \A r \in Reqs :
             /\ Abandon(r) => UNCHANGED mainVars
             /\ (r \in aborted /\ RefreshSucceeds(r))
                  => (cache' = Some(ret'[r]) /\ cacheDate' = now')
             /\ (pc[r] = "idle" /\ pc'[r] # "idle" /\ IsFresh(now, cacheDate, cache))
                  => (pc'[r] = "resume" /\ ret'[r] = TheVal(cache) /\ calls'[r] = NoCalls) ]_vars

\* r's client left during its refresh; the refresh succeeded and r's handler
\* wrote the whole list; q, which arrived after that, is served the same list
\* from the cache, within its TTL and without a fetch
C24_Witness ==
    \E r \in aborted : \E q \in Reqs \ {r} :
        /\ cache # None
        /\ pc[r] = "done"
        /\ resp[r] = Ok200(TheVal(cache), 0)
        /\ pc[q] = "resume"
        /\ calls[q] = NoCalls
        /\ ret[q] = TheVal(cache)
        /\ now - cacheDate < CACHE_MS

(* C29: the cached snapshot never regresses to older upstream data: the time
   at which the feed fetches behind the cached snapshot were issued never
   decreases, whatever the order in which concurrent refreshes finish. *)
C29_NoRegression == [][cachePairAt' >= cachePairAt]_vars

(* C30: in the web page the list on display belongs to the selected min: a
   response is applied to the stations state only if its request was issued
   for the current value of min, whether the request came from the load
   effect or from the 60-second interval. *)
C30_ResponseAppliedForCurrentMin ==
    [][ /\ LoadResolved => pgLoad = Some(pgMin)
        /\ \A m \in PageMins : TimerResolved(m) => m = pgMin ]_vars

====
